---- MODULE Spec2Model ----
(***************************************************************************)
(* A model of shoumei's module loader (src/module.rs) and of its pipeline  *)
(* driver (src/interpreter/mod.rs).                                        *)
(*                                                                         *)
(* The loader is the state machine of one ModuleLoader value: its three    *)
(* fields, the file system it reads, and the position of the load call     *)
(* that is running.  The driver is the state machine of one parse call.    *)
(* Both are single-threaded and synchronous: a call runs to its return     *)
(* before the next call starts.                                            *)
(***************************************************************************)
EXTENDS Integers, Sequences, FiniteSets, TLC

VARIABLES
    \* ---- the file system (read by File::open)
    files,              \* [Paths -> FileStates]
    \* ---- ModuleLoader's fields
    currently_loading,  \* HashSet<ModulePath>
    modules,            \* HashMap<ModulePath, Option<Module>>: a function on the keys
    error_emitter,      \* ErrorEmitter: the messages it holds, in emission order
    \* ---- the running load call
    pc,                 \* "idle" | "open" | "read" | "finish"
    module_path,        \* load's argument
    file,               \* load's `file`: DiagnosticResult<File>
    lines_vec,          \* the closure's `lines` vector
    line_number,        \* the closure's zip(0..) counter
    lines,              \* load's `lines`: DiagnosticResult<Vec<String>>
    \* ---- what a caller of the loader observes
    taken,              \* the emitter take_error_emitter returned last
    last,               \* the most recent call on the loader, and the loader at its entry
    history,            \* the calls made on the loader so far, in order
    emitted,            \* every message the emitter was given so far, in order
    delivered,          \* every message a take_error_emitter call returned so far, in order
    \* ---- the running parse call
    ppc,                \* "idle" | "open" | "read" | a pass name | "map" | "done"
    pmodule_path,       \* parse's argument
    pfile,              \* parse's `file`
    plines_vec,         \* the closure's `lines` vector
    pline_number,       \* the closure's zip(0..) counter
    presult,            \* the DiagnosticResult the chain has built so far
    \* ---- what a test harness around parse observes
    invoked,            \* the passes invoked by this call, in invocation order
    returned,           \* what the read stage and each invoked pass returned
    \* ---- Location and Range values under test
    rargs,              \* the three Range operands of union
    rloc,               \* the Location handed to Range::from
    rpc,                \* "idle" | "done"
    rresult             \* what the calls returned

loader_vars == <<currently_loading, modules, error_emitter>>
load_vars == <<pc, module_path, file, lines_vec, line_number, lines>>
caller_vars == <<taken, last, history, emitted, delivered>>
parse_vars == <<ppc, pmodule_path, pfile, plines_vec, pline_number, presult, invoked, returned>>
range_vars == <<rargs, rloc, rpc, rresult>>
vars == <<files, loader_vars, load_vars, caller_vars, parse_vars, range_vars>>

-----------------------------------------------------------------------------
(* Bounds of the model *)

\* the longest file, in lines
MaxLines == 2
\* the number of calls made on one loader
MaxCalls == 2
\* the number of calls made on one loader whose files do not change
MaxSessionCalls == 4
\* the most diagnostics one pass returns from one invocation
MaxDiags == 1
\* the number of distinct syntax trees the parser pass can return
MaxTrees == 2
\* the operands of union take their lines and columns from MaxCoord + 1 numbers
MaxCoord == 1
\* Range::from is tried on numbers whose 16-bit halves are within MaxEdge of
\* their least or of their greatest value
MaxEdge == 1

-----------------------------------------------------------------------------
(* Module paths, files, messages *)

\* ModulePath values: two modules, enough for a module to name another one
Paths == {"A", "B"}

\* A line of a file either fails to decode as UTF-8 or decodes to a string; the
\* strings are inclusion directives, each naming the module it includes.
BadLine == "bad"
Lines == {BadLine} \cup Paths

RECURSIVE SeqsUpTo(_, _)
SeqsUpTo(S, n) ==
    IF n = 0 THEN {<<>>}
    ELSE LET shorter == SeqsUpTo(S, n - 1)
         IN  shorter \cup {Append(s, x) : s \in {t \in shorter : Len(t) = n - 1}, x \in S}

\* A path either has no openable file or addresses a file of lines
Missing == [exists |-> FALSE, content |-> <<>>]
FileStates == {Missing} \cup {[exists |-> TRUE, content |-> c] : c \in SeqsUpTo(Lines, MaxLines)}

\* Option<T>: None is the empty sequence, Some(v) the sequence of v alone
None == <<>>
Some(v) == <<v>>

\* Diagnostic::in_file
InFile(p) == [kind |-> "in_file", path |-> p]

\* ErrorMessage::new
ErrorMessage(text, severity, context) ==
    [text |-> text, severity |-> severity, context |-> context]

\* The closure's counter is an i32 (zip(0..) with no other constraint on its
\* type).  line_number + 1 wraps at i32::MAX in a build without overflow checks
\* and panics in a build with them; no file of the model is that long.
I32Max == 2147483647
LineNumberPlusOne(n) == IF n = I32Max THEN (-I32Max) - 1 ELSE n + 1

CyclicMessage(p) ==
    ErrorMessage(<<"cyclic module inclusion detected">>, "Error", InFile(p))

LoadCannotOpenMessage(p) == ErrorMessage(<<"cannot open file">>, "Error", InFile(p))

\* LoadInvalidUtf8Message naming the line by the 0-indexed counter itself
LoadInvalidUtf8Message_ZeroIndexed(p, n) ==
    ErrorMessage(<<"file contained invalid UTF-8 on line ", n>>, "Error", InFile(p))

\* format!("file contained invalid UTF-8 on line {}", line_number + 1)
LoadInvalidUtf8Message(p, n) ==
    ErrorMessage(<<"file contained invalid UTF-8 on line ", LineNumberPlusOne(n)>>, "Error", InFile(p))

-----------------------------------------------------------------------------
(* The diagnostic algebra: DiagnosticResult and ErrorEmitter (crate root) *)

\* DiagnosticResult::ok
DiagOk(v) == [value |-> Some(v), diags |-> <<>>]

\* DiagnosticResult::fail
DiagFail(m) == [value |-> None, diags |-> <<m>>]

IsOk(r) == r.value # None

\* what bind returns when self is Ok with diagnostics ds and f returned r
BindJoin(ds, r) == [value |-> r.value, diags |-> ds \o r.diags]

\* what bind returns when self is Fail: f is not called
BindSkip(self) == [value |-> None, diags |-> self.diags]

HasError(ds) == \E i \in 1..Len(ds) : ds[i].severity = "Error"

\* DiagnosticResult::deny
Deny(r) == IF HasError(r.diags) THEN [value |-> None, diags |-> r.diags] ELSE r

\* ErrorEmitter::process
EmitterProcess(emitter, ms) == emitter \o ms

\* ErrorEmitter::default
EmitterDefault == <<>>

-----------------------------------------------------------------------------
(* Location and Range (src/interpreter/mod.rs) *)

\* the greatest value of a 16-bit half of a u32
U16Max == 65535

\* A u32 is held as its two 16-bit halves, so that the whole width is there:
\* the number is hi * 2^16 + lo.
U32(hi, lo) == [hi |-> hi, lo |-> lo]

U32Zero == U32(0, 0)

\* u32::MAX
U32Max == U32(U16Max, U16Max)

\* Ord for u32
U32Less(x, y) == x.hi < y.hi \/ (x.hi = y.hi /\ x.lo < y.lo)

\* x + 1 on u32 when the build wraps on overflow
U32WrappingSucc(x) ==
    IF x.lo < U16Max THEN U32(x.hi, x.lo + 1)
    ELSE IF x.hi < U16Max THEN U32(x.hi + 1, 0)
    ELSE U32Zero

\* Location::new
Location(line, col) == [line |-> line, col |-> col]

\* Range { start, end }
Range(start, end) == [start |-> start, end |-> end]

\* the derived Ord of Location: by line, then by col
LocationLess(l, m) == U32Less(l.line, m.line) \/ (l.line = m.line /\ U32Less(l.col, m.col))

\* Ord::min and Ord::max for Location
LocationMin(l, m) == IF LocationLess(m, l) THEN m ELSE l
LocationMax(l, m) == IF LocationLess(m, l) THEN l ELSE m

\* Range::union returning the end of its argument
RangeUnion_EndOfOther(self, other) ==
    Range(LocationMin(self.start, other.start), other.end)

\* Range::union
RangeUnion(self, other) ==
    Range(LocationMin(self.start, other.start), LocationMax(self.end, other.end))

\* Range::from(Location): what the call can do.  `location.col + 1` overflows
\* when col is u32::MAX: a build with overflow checks panics there and returns
\* nothing, a build without them wraps the column to 0.
RangeFrom(location) ==
    IF location.col = U32Max
    THEN {None,
          Some(Range(location, Location(location.line, U32WrappingSucc(location.col))))}
    ELSE {Some(Range(location, Location(location.line, U32WrappingSucc(location.col))))}

\* the lines and columns of the operands of union: numbers on both sides of
\* 2^16, the smaller ones with the greater low halves
UnionCoords == {U32(i, MaxCoord - i) : i \in 0..MaxCoord}

UnionLocations == {Location(l, c) : l \in UnionCoords, c \in UnionCoords}

UnionRanges == {Range(s, e) : s \in UnionLocations, e \in UnionLocations}

\* the halves of the lines and columns Range::from is tried on
EdgeHalves == (0..MaxEdge) \cup ((U16Max - MaxEdge)..U16Max)

EdgeNumbers == {U32(h, l) : h \in EdgeHalves, l \in EdgeHalves}

EdgeLocations == {Location(l, c) : l \in EdgeNumbers, c \in EdgeNumbers}

\* no Range operation has been called: the operands start at one fixed value
RangeIdle ==
    /\ rargs = <<>>
    /\ rloc = Location(U32Zero, U32Zero)
    /\ rpc = "idle"
    /\ rresult = <<>>

-----------------------------------------------------------------------------
(* ModuleLoader *)

\* A record of one call on the loader: the call, the loader at its entry, and
\* what the call did to the file system
CallRecord(kind, p, cyclic) ==
    [kind |-> kind, path |-> p, cyclic |-> cyclic, returned |-> cyclic \/ kind # "load",
     opens |-> 0, disk |-> Missing, examined |-> 0,
     emitter0 |-> error_emitter, modules0 |-> modules, loading0 |-> currently_loading,
     delivered0 |-> delivered]

NoCall ==
    [kind |-> "none", path |-> "A", cyclic |-> FALSE, returned |-> TRUE,
     opens |-> 0, disk |-> Missing, examined |-> 0,
     emitter0 |-> <<>>, modules0 |-> <<>>, loading0 |-> {}, delivered0 |-> <<>>]

\* HashMap::insert
MapInsert(m, k, v) == [x \in (DOMAIN m) \cup {k} |-> IF x = k THEN v ELSE m[x]]

\* ModuleLoader::new, on a fresh ErrorEmitter.  The locals of load hold nothing
\* before the first call; they start at one fixed value.
LoaderInit ==
    /\ currently_loading = {}
    /\ modules = <<>>
    /\ error_emitter = EmitterDefault
    /\ pc = "idle"
    /\ module_path = "A"
    /\ file = DiagFail(LoadCannotOpenMessage("A"))
    /\ lines_vec = <<>>
    /\ line_number = 0
    /\ lines = DiagFail(LoadCannotOpenMessage("A"))
    /\ taken = EmitterDefault
    /\ last = NoCall
    /\ history = <<>>
    /\ emitted = <<>>
    /\ delivered = <<>>

\* parse before it is called: its locals start at one fixed value
ParseIdle ==
    /\ ppc = "idle"
    /\ pmodule_path = "A"
    /\ pfile = DiagFail(LoadCannotOpenMessage("A"))
    /\ plines_vec = <<>>
    /\ pline_number = 0
    /\ presult = DiagFail(LoadCannotOpenMessage("A"))
    /\ invoked = <<>>
    /\ returned = <<>>

Init ==
    /\ files \in [Paths -> FileStates]
    /\ LoaderInit
    /\ ParseIdle
    /\ RangeIdle

\* load, from its entry to the insertion into currently_loading
LoadCall(p) ==
    /\ pc = "idle"
    /\ history' = Append(history, <<"load", p>>)
    /\ module_path' = p
    /\ IF p \in currently_loading
       THEN /\ error_emitter' = EmitterProcess(error_emitter, <<CyclicMessage(p)>>)
            /\ emitted' = emitted \o <<CyclicMessage(p)>>
            /\ last' = CallRecord("load", p, TRUE)
            /\ UNCHANGED <<currently_loading, pc>>
       ELSE /\ currently_loading' = currently_loading \cup {p}
            /\ last' = CallRecord("load", p, FALSE)
            /\ pc' = "open"
            /\ UNCHANGED <<error_emitter, emitted>>
    /\ UNCHANGED <<files, modules, file, lines_vec, line_number, lines, taken, delivered, parse_vars, range_vars>>

\* load: File::open and the conversion of its result
LoadOpen ==
    /\ pc = "open"
    /\ file' = IF files[module_path].exists
               THEN DiagOk(files[module_path].content)
               ELSE DiagFail(LoadCannotOpenMessage(module_path))
    /\ last' = [last EXCEPT !.opens = @ + 1, !.disk = files[module_path]]
    /\ lines_vec' = <<>>
    /\ line_number' = 0
    /\ pc' = "read"
    /\ UNCHANGED <<files, loader_vars, module_path, lines, taken, delivered, history, emitted,
                   parse_vars, range_vars>>

\* LoadRead with a loop that never consumes the line it has examined
LoadRead_NoProgress ==
    /\ pc = "read"
    /\ IF ~IsOk(file)
       THEN /\ lines' = BindSkip(file)
            /\ pc' = "finish"
       ELSE LET content == file.value[1]
            IN  IF line_number < Len(content)
                THEN IF content[line_number + 1] # BadLine
                     THEN UNCHANGED <<lines, pc>>
                     ELSE /\ lines' = BindJoin(file.diags,
                                 DiagFail(LoadInvalidUtf8Message(module_path, line_number)))
                          /\ pc' = "finish"
                ELSE /\ lines' = BindJoin(file.diags, DiagOk(lines_vec))
                     /\ pc' = "finish"
    /\ UNCHANGED <<files, loader_vars, module_path, file, lines_vec, line_number, taken, delivered, last,
                   history, emitted, parse_vars, range_vars>>

\* load: file.bind(closure), one turn of the closure's loop at a time
LoadRead ==
    /\ pc = "read"
    /\ IF ~IsOk(file)
       THEN /\ lines' = BindSkip(file)
            /\ pc' = "finish"
            /\ UNCHANGED <<lines_vec, line_number, last>>
       ELSE LET content == file.value[1]
            IN  IF line_number < Len(content)
                THEN /\ last' = [last EXCEPT !.examined = @ + 1]
                     /\ IF content[line_number + 1] # BadLine
                        THEN /\ lines_vec' = Append(lines_vec, content[line_number + 1])
                             /\ line_number' = line_number + 1
                             /\ UNCHANGED <<lines, pc>>
                        ELSE /\ lines' = BindJoin(file.diags,
                                    DiagFail(LoadInvalidUtf8Message(module_path, line_number)))
                             /\ pc' = "finish"
                             /\ UNCHANGED <<lines_vec, line_number>>
                ELSE /\ lines' = BindJoin(file.diags, DiagOk(lines_vec))
                     /\ pc' = "finish"
                     /\ UNCHANGED <<lines_vec, line_number, last>>
    /\ UNCHANGED <<files, loader_vars, module_path, file, taken, delivered, history, emitted,
                   parse_vars, range_vars>>

\* LoadFinish without currently_loading.remove
LoadFinish_NoRemove ==
    /\ pc = "finish"
    /\ LET module == IF IsOk(lines) THEN BindJoin(lines.diags, DiagOk("Module"))
                     ELSE BindSkip(lines)
       IN  /\ error_emitter' = EmitterProcess(error_emitter, module.diags)
           /\ emitted' = emitted \o module.diags
           /\ modules' = MapInsert(modules, module_path, module.value)
    /\ last' = [last EXCEPT !.returned = TRUE]
    /\ pc' = "idle"
    /\ UNCHANGED <<files, currently_loading, module_path, file, lines_vec, line_number, lines,
                   taken, delivered, history, parse_vars, range_vars>>

\* LoadFinish caching only the modules that loaded
LoadFinish_InsertOnlyLoaded ==
    /\ pc = "finish"
    /\ LET module == IF IsOk(lines) THEN BindJoin(lines.diags, DiagOk("Module"))
                     ELSE BindSkip(lines)
       IN  /\ error_emitter' = EmitterProcess(error_emitter, module.diags)
           /\ emitted' = emitted \o module.diags
           /\ currently_loading' = currently_loading \ {module_path}
           /\ modules' = IF module.value = None THEN modules
                         ELSE MapInsert(modules, module_path, module.value)
    /\ last' = [last EXCEPT !.returned = TRUE]
    /\ pc' = "idle"
    /\ UNCHANGED <<files, module_path, file, lines_vec, line_number, lines, taken, delivered, history,
                   parse_vars, range_vars>>

\* LoadFinish leaving in currently_loading the path of a module that failed
LoadFinish_RemoveOnlyLoaded ==
    /\ pc = "finish"
    /\ LET module == IF IsOk(lines) THEN BindJoin(lines.diags, DiagOk("Module"))
                     ELSE BindSkip(lines)
       IN  /\ error_emitter' = EmitterProcess(error_emitter, module.diags)
           /\ emitted' = emitted \o module.diags
           /\ currently_loading' = IF module.value = None THEN currently_loading
                                    ELSE currently_loading \ {module_path}
           /\ modules' = MapInsert(modules, module_path, module.value)
    /\ last' = [last EXCEPT !.returned = TRUE]
    /\ pc' = "idle"
    /\ UNCHANGED <<files, module_path, file, lines_vec, line_number, lines, taken, delivered, history,
                   parse_vars, range_vars>>

\* LoadFinish keeping the entry a path already has
LoadFinish_KeepsPriorEntry ==
    /\ pc = "finish"
    /\ LET module == IF IsOk(lines) THEN BindJoin(lines.diags, DiagOk("Module"))
                     ELSE BindSkip(lines)
       IN  /\ error_emitter' = EmitterProcess(error_emitter, module.diags)
           /\ emitted' = emitted \o module.diags
           /\ currently_loading' = currently_loading \ {module_path}
           /\ modules' = IF module_path \in DOMAIN modules THEN modules
                         ELSE MapInsert(modules, module_path, module.value)
    /\ last' = [last EXCEPT !.returned = TRUE]
    /\ pc' = "idle"
    /\ UNCHANGED <<files, module_path, file, lines_vec, line_number, lines, taken, delivered, history,
                   parse_vars, range_vars>>

\* LoadFinish refusing a module while the cache holds a module that failed
LoadFinish_PoisonedByFailures ==
    /\ pc = "finish"
    /\ LET poisoned == \E k \in DOMAIN modules : k # module_path /\ modules[k] = None
           module == IF IsOk(lines) /\ ~poisoned
                     THEN BindJoin(lines.diags, DiagOk("Module"))
                     ELSE [value |-> None, diags |-> lines.diags]
       IN  /\ error_emitter' = EmitterProcess(error_emitter, module.diags)
           /\ emitted' = emitted \o module.diags
           /\ currently_loading' = currently_loading \ {module_path}
           /\ modules' = MapInsert(modules, module_path, module.value)
    /\ last' = [last EXCEPT !.returned = TRUE]
    /\ pc' = "idle"
    /\ UNCHANGED <<files, module_path, file, lines_vec, line_number, lines, taken, delivered, history,
                   parse_vars, range_vars>>

\* LoadFinish starting the cache afresh at every insertion
LoadFinish_ClearsCache ==
    /\ pc = "finish"
    /\ LET module == IF IsOk(lines) THEN BindJoin(lines.diags, DiagOk("Module"))
                     ELSE BindSkip(lines)
       IN  /\ error_emitter' = EmitterProcess(error_emitter, module.diags)
           /\ emitted' = emitted \o module.diags
           /\ currently_loading' = currently_loading \ {module_path}
           /\ modules' = MapInsert(<<>>, module_path, module.value)
    /\ last' = [last EXCEPT !.returned = TRUE]
    /\ pc' = "idle"
    /\ UNCHANGED <<files, module_path, file, lines_vec, line_number, lines, taken, delivered, history,
                   parse_vars, range_vars>>

\* load from lines.bind to its return: the module is built, its diagnostics are
\* consumed by the emitter, the path leaves currently_loading and enters modules
LoadFinish ==
    /\ pc = "finish"
    /\ LET module == IF IsOk(lines) THEN BindJoin(lines.diags, DiagOk("Module"))
                     ELSE BindSkip(lines)
       IN  /\ error_emitter' = EmitterProcess(error_emitter, module.diags)
           /\ emitted' = emitted \o module.diags
           /\ currently_loading' = currently_loading \ {module_path}
           /\ modules' = MapInsert(modules, module_path, module.value)
    /\ last' = [last EXCEPT !.returned = TRUE]
    /\ pc' = "idle"
    /\ UNCHANGED <<files, module_path, file, lines_vec, line_number, lines, taken, delivered, history,
                   parse_vars, range_vars>>

\* take_error_emitter lending out the emitter without resetting the loader's
TakeErrorEmitter_Peek ==
    /\ pc = "idle"
    /\ history' = Append(history, <<"take", "A">>)
    /\ taken' = error_emitter
    /\ delivered' = delivered \o error_emitter
    /\ last' = CallRecord("take", "A", FALSE)
    /\ UNCHANGED <<files, currently_loading, modules, error_emitter, load_vars, emitted,
                   parse_vars, range_vars>>

\* ModuleLoader::take_error_emitter
TakeErrorEmitter ==
    /\ pc = "idle"
    /\ history' = Append(history, <<"take", "A">>)
    /\ taken' = error_emitter
    /\ delivered' = delivered \o error_emitter
    /\ error_emitter' = EmitterDefault
    /\ last' = CallRecord("take", "A", FALSE)
    /\ UNCHANGED <<files, currently_loading, modules, load_vars, emitted, parse_vars, range_vars>>

\* Between two calls the file a path addresses may be removed, or created or
\* truncated to an empty file: File::open reads the file system as it is then.
FileChange(p) ==
    /\ pc = "idle"
    /\ \E f \in {Missing, [exists |-> TRUE, content |-> <<>>]} :
           /\ f # files[p]
           /\ files' = [files EXCEPT ![p] = f]
    /\ UNCHANGED <<loader_vars, load_vars, caller_vars, parse_vars, range_vars>>

LoadStep == LoadOpen \/ LoadRead \/ LoadFinish

\* a caller makes up to MaxCalls calls on the loader, while files come and go
Next ==
    \/ Len(history) < MaxCalls /\ \E p \in Paths : LoadCall(p)
    \/ LoadOpen
    \/ LoadRead
    \/ LoadFinish
    \/ Len(history) < MaxCalls /\ TakeErrorEmitter
    \/ \E p \in Paths : FileChange(p)

Spec == Init /\ [][Next]_vars

\* a longer session of calls on the loader, over files that stay as they are
NextSession ==
    \/ Len(history) < MaxSessionCalls /\ \E p \in Paths : LoadCall(p)
    \/ LoadOpen
    \/ LoadRead
    \/ LoadFinish
    \/ Len(history) < MaxSessionCalls /\ TakeErrorEmitter

SpecSession == Init /\ [][NextSession]_vars

\* A call that has started runs to its return: the loader is synchronous
FairSpec == Spec /\ WF_vars(LoadStep)

-----------------------------------------------------------------------------
(* The pipeline driver: parse *)

\* the compilation passes, in order of execution
Passes == <<"lexer", "indent", "brackets", "parser", "types", "index">>

PassIndex(stage) == CHOOSE i \in 1..Len(Passes) : Passes[i] = stage

PassNames == {Passes[i] : i \in 1..Len(Passes)}

\* where the chain goes after the bind and deny of `stage`
AfterStage(stage) ==
    IF stage = "read" THEN Passes[1]
    ELSE IF PassIndex(stage) < Len(Passes) THEN Passes[PassIndex(stage) + 1]
    ELSE "map"

\* ParseCannotOpenMessage reporting the file as a warning
ParseCannotOpenMessage_Warning(p) == ErrorMessage(<<"cannot open file">>, "Warning", InFile(p))

\* the message of parse for a file that does not open
ParseCannotOpenMessage(p) == ErrorMessage(<<"cannot open file">>, "Error", InFile(p))

\* format!("file contained invalid UTF-8 on line {}", line_number + 1)
ParseInvalidUtf8Message(p, n) ==
    ErrorMessage(<<"file contained invalid UTF-8 on line ", LineNumberPlusOne(n)>>, "Error", InFile(p))

Severities == {"Warning", "Error"}

\* The artifacts a pass can return.  The syntax tree is the artifact parse hands
\* to its caller, so the parser pass has several to choose from.
Artifacts(stage) ==
    {[pass |-> stage, id |-> i] : i \in IF stage = "parser" THEN 1..MaxTrees ELSE {1}}

\* the diagnostics of one invocation of a pass on module p, by their severities
PassDiags(stage, p, sevs) ==
    [i \in 1..Len(sevs) |-> ErrorMessage(<<stage, i>>, sevs[i], InFile(p))]

\* Everything a pass may return: a value or none, with any diagnostics
PassOutcomes(stage, p) ==
    {[value |-> v, diags |-> PassDiags(stage, p, sevs)] :
        v \in {None} \cup {Some(a) : a \in Artifacts(stage)},
        sevs \in SeqsUpTo(Severities, MaxDiags)}

\* DiagnosticResult::map, fv being what the mapped function makes of r's value
DiagMap(r, fv) == IF IsOk(r) THEN [value |-> Some(fv), diags |-> r.diags] ELSE r

\* types::ProjectTypesC::new and insert
ProjectTypes(p, types) == [module |-> p, types |-> types]

\* StageClosure with a types closure that rebuilds its result from the type
\* table alone, leaving the diagnostics of compute_types behind
StageClosure_DropsTypesDiags(stage, p, v, out) ==
    CASE stage = "types" ->
            IF IsOk(out) THEN DiagOk(<<ProjectTypes(p, out.value[1]), v>>) ELSE out
      [] stage = "index" ->
            DiagMap(out, <<v[1], out.value[1], v[2]>>)
      [] OTHER -> out

\* The closure bound at `stage`, given the value v it receives and what the pass
\* it calls returned
StageClosure(stage, p, v, out) ==
    CASE stage = "types" ->
            LET project_types == DiagMap(out, ProjectTypes(p, out.value[1]))
            IN  DiagMap(project_types, <<project_types.value[1], v>>)
      [] stage = "index" ->
            DiagMap(out, <<v[1], out.value[1], v[2]>>)
      [] OTHER -> out

\* ChainDeny with no deny between the parser pass and the types pass
ChainDeny_NoneAfterParser(stage, r) == IF stage = "parser" THEN r ELSE Deny(r)

\* ChainDeny refusing every result that carries a diagnostic, warnings included
ChainDeny_DeniesWarnings(stage, r) ==
    IF r.diags # <<>> THEN [value |-> None, diags |-> r.diags] ELSE r

IsError(m) == m.severity = "Error"

\* ChainDeny keeping, of a result it refuses, the Error diagnostics alone
ChainDeny_KeepsOnlyErrors(stage, r) ==
    IF HasError(r.diags) THEN [value |-> None, diags |-> SelectSeq(r.diags, IsError)] ELSE r

\* the deny that follows the bind of `stage`
ChainDeny(stage, r) == Deny(r)

\* parse: File::open and the conversion of its result
ParseCall(p) ==
    /\ ppc = "idle"
    /\ pmodule_path' = p
    /\ pfile' = IF files[p].exists
                THEN DiagOk(files[p].content)
                ELSE DiagFail(ParseCannotOpenMessage(p))
    /\ plines_vec' = <<>>
    /\ pline_number' = 0
    /\ invoked' = <<>>
    /\ returned' = <<>>
    /\ ppc' = "read"
    /\ UNCHANGED <<files, loader_vars, load_vars, caller_vars, range_vars, presult>>

\* parse: file.bind(closure), one turn of the closure's loop at a time
ParseRead ==
    /\ ppc = "read"
    /\ IF ~IsOk(pfile)
       THEN /\ presult' = BindSkip(pfile)
            /\ returned' = Append(returned, [stage |-> "open", result |-> pfile])
            /\ ppc' = AfterStage("read")
            /\ UNCHANGED <<plines_vec, pline_number>>
       ELSE LET content == pfile.value[1]
            IN  IF pline_number < Len(content)
                THEN IF content[pline_number + 1] # BadLine
                     THEN /\ plines_vec' = Append(plines_vec, content[pline_number + 1])
                          /\ pline_number' = pline_number + 1
                          /\ UNCHANGED <<presult, returned, ppc>>
                     ELSE LET r == DiagFail(ParseInvalidUtf8Message(pmodule_path, pline_number))
                          IN  /\ presult' = BindJoin(pfile.diags, r)
                              /\ returned' = Append(returned, [stage |-> "read", result |-> r])
                              /\ ppc' = AfterStage("read")
                              /\ UNCHANGED <<plines_vec, pline_number>>
                ELSE LET r == DiagOk(plines_vec)
                     IN  /\ presult' = BindJoin(pfile.diags, r)
                         /\ returned' = Append(returned, [stage |-> "read", result |-> r])
                         /\ ppc' = AfterStage("read")
                         /\ UNCHANGED <<plines_vec, pline_number>>
    /\ UNCHANGED <<files, loader_vars, load_vars, caller_vars, range_vars, pmodule_path, pfile, invoked>>

\* ParsePass with a bind that calls its closure on a failed result as well
ParsePass_RunsOnFail ==
    /\ ppc \in PassNames
    /\ \E out \in PassOutcomes(ppc, pmodule_path) :
           /\ invoked' = Append(invoked, ppc)
           /\ returned' = Append(returned, [stage |-> ppc, result |-> out])
           /\ presult' =
                  IF IsOk(presult)
                  THEN ChainDeny(ppc, BindJoin(presult.diags,
                           StageClosure(ppc, pmodule_path, presult.value[1], out)))
                  ELSE ChainDeny(ppc, [value |-> None, diags |-> presult.diags \o out.diags])
    /\ ppc' = AfterStage(ppc)
    /\ UNCHANGED <<files, loader_vars, load_vars, caller_vars, range_vars, pmodule_path, pfile,
                   plines_vec, pline_number>>

\* parse: one .bind(closure).deny() of the chain
ParsePass ==
    /\ ppc \in PassNames
    /\ IF IsOk(presult)
       THEN \E out \in PassOutcomes(ppc, pmodule_path) :
               /\ invoked' = Append(invoked, ppc)
               /\ returned' = Append(returned, [stage |-> ppc, result |-> out])
               /\ presult' = ChainDeny(ppc, BindJoin(presult.diags,
                                 StageClosure(ppc, pmodule_path, presult.value[1], out)))
       ELSE /\ presult' = ChainDeny(ppc, BindSkip(presult))
            /\ UNCHANGED <<invoked, returned>>
    /\ ppc' = AfterStage(ppc)
    /\ UNCHANGED <<files, loader_vars, load_vars, caller_vars, range_vars, pmodule_path, pfile,
                   plines_vec, pline_number>>

\* ParseMap handing back the index of the tuple in place of the module
ParseMap_ReturnsIndex ==
    /\ ppc = "map"
    /\ presult' = Deny(DiagMap(presult, presult.value[1][2]))
    /\ ppc' = "done"
    /\ UNCHANGED <<files, loader_vars, load_vars, caller_vars, range_vars, pmodule_path, pfile,
                   plines_vec, pline_number, invoked, returned>>

\* parse: the closing .map(closure).deny(); its result is what parse returns
ParseMap ==
    /\ ppc = "map"
    /\ presult' = Deny(DiagMap(presult, presult.value[1][3]))
    /\ ppc' = "done"
    /\ UNCHANGED <<files, loader_vars, load_vars, caller_vars, range_vars, pmodule_path, pfile,
                   plines_vec, pline_number, invoked, returned>>

\* parse is called on one module path; the files of the other paths play no part
InitParse ==
    /\ \E p \in Paths, f \in FileStates :
           files = [q \in Paths |-> IF q = p THEN f ELSE Missing]
    /\ LoaderInit
    /\ ParseIdle
    /\ RangeIdle

NextParse ==
    \/ \E p \in Paths : ParseCall(p)
    \/ ParseRead
    \/ ParsePass
    \/ ParseMap

SpecParse == InitParse /\ [][NextParse]_vars

\* The two read stages side by side: load calls on a loader and the open and
\* read of one parse call, one call at a time.
NextRead ==
    \/ ppc # "read" /\ Len(history) < MaxCalls /\ \E p \in Paths : LoadCall(p)
    \/ LoadOpen
    \/ LoadRead
    \/ LoadFinish
    \/ pc = "idle" /\ \E p \in Paths : ParseCall(p)
    \/ ParseRead

SpecRead == InitParse /\ [][NextRead]_vars

-----------------------------------------------------------------------------
(* Calls on Range *)

\* the unions a caller computes of three ranges a, b and c
UnionCalls ==
    /\ rpc = "idle"
    /\ LET a == rargs[1]
           b == rargs[2]
           c == rargs[3]
       IN  rresult' = [ab   |-> RangeUnion(a, b),
                       ba   |-> RangeUnion(b, a),
                       a_bc |-> RangeUnion(a, RangeUnion(b, c)),
                       ab_c |-> RangeUnion(RangeUnion(a, b), c),
                       aa   |-> RangeUnion(a, a)]
    /\ rpc' = "done"
    /\ UNCHANGED <<files, loader_vars, load_vars, caller_vars, parse_vars, rargs, rloc>>

InitUnion ==
    /\ files = [p \in Paths |-> Missing]
    /\ LoaderInit
    /\ ParseIdle
    /\ rargs \in UnionRanges \X UnionRanges \X UnionRanges
    /\ rloc = Location(U32Zero, U32Zero)
    /\ rpc = "idle"
    /\ rresult = <<>>

NextUnion == UnionCalls

SpecUnion == InitUnion /\ [][NextUnion]_vars

\* Range::from(rloc) is called
FromCall ==
    /\ rpc = "idle"
    /\ rresult' \in RangeFrom(rloc)
    /\ rpc' = "done"
    /\ UNCHANGED <<files, loader_vars, load_vars, caller_vars, parse_vars, rargs, rloc>>

InitFrom ==
    /\ files = [p \in Paths |-> Missing]
    /\ LoaderInit
    /\ ParseIdle
    /\ rargs = <<>>
    /\ rloc \in EdgeLocations
    /\ rpc = "idle"
    /\ rresult = <<>>

NextFrom == FromCall

SpecFrom == InitFrom /\ [][NextFrom]_vars

-----------------------------------------------------------------------------
(* Properties of the loader *)

SeqRange(q) == {q[i] : i \in 1..Len(q)}

\* the file of module a holds a line that includes module b
Includes(fs, a, b) == fs[a].exists /\ b \in SeqRange(fs[a].content)

\* every line of the file of module a decodes
Readable(fs, a) == fs[a].exists /\ BadLine \notin SeqRange(fs[a].content)

IsCyclicMessage(m) == m.text = <<"cyclic module inclusion detected">>

CyclicCount(q) == Cardinality({i \in 1..Len(q) : IsCyclicMessage(q[i])})

\* a load call on the loader has returned, and nothing was called since
LoadReturned == pc = "idle" /\ last.kind = "load" /\ last.returned

\* C1: when A includes B and B includes A, load(A) on a fresh ModuleLoader
\* leaves exactly one "cyclic module inclusion detected" message in the emitter.
C1_OneCyclicDiagnostic ==
    \A a \in Paths : \A b \in Paths \ {a} :
        ( /\ history = << <<"load", a>> >>
          /\ LoadReturned
          /\ Readable(files, a) /\ Readable(files, b)
          /\ Includes(files, a, b) /\ Includes(files, b, a) )
        => CyclicCount(error_emitter) = 1

\* C3: every load call returns, and it opens at most one file: a call that is
\* running leads to the loader being idle again, whatever the files include.
C3_LoadTerminates ==
    /\ [](last.opens <= 1)
    /\ (pc # "idle") ~> (pc = "idle")

\* a load of A has returned in a file system where A and B include each other
C3_Witness ==
    /\ LoadReturned /\ ~last.cyclic /\ last.opens = 1
    /\ \E a \in Paths : \E b \in Paths \ {a} :
           /\ last.path = a
           /\ Includes(files, a, b) /\ Includes(files, b, a)

\* path p was requested by two load calls, one right after the other
LoadedTwiceInARow(p) ==
    \E i \in 1..(Len(history) - 1) :
        history[i] = <<"load", p>> /\ history[i + 1] = <<"load", p>>

\* C4: a path requested by two or more load calls one after another, each
\* returning before the next starts, is never reported as cyclic.
C4_RepeatedLoadNotCyclic ==
    \A p \in Paths : LoadedTwiceInARow(p) => CyclicMessage(p) \notin SeqRange(emitted)

\* the second of two loads of one path in a row has returned
C4_Witness == LoadReturned /\ LoadedTwiceInARow(last.path)

\* C9: a load of a path whose file cannot be opened caches None for the path
\* and gives the emitter exactly one message, the Error "cannot open file" on it.
C9_CannotOpen ==
    (LoadReturned /\ ~last.cyclic /\ ~last.disk.exists)
    => /\ last.path \in DOMAIN modules
       /\ modules[last.path] = None
       /\ error_emitter = Append(last.emitter0,
              ErrorMessage(<<"cannot open file">>, "Error", InFile(last.path)))

\* a load of a path with no file has returned, into an emitter that held messages
C9_Witness == LoadReturned /\ ~last.cyclic /\ ~last.disk.exists /\ last.emitter0 # <<>>

\* the 1-indexed number of the first line of a file that does not decode, or 0
FirstBad(content) ==
    IF BadLine \in SeqRange(content)
    THEN CHOOSE i \in 1..Len(content) :
            content[i] = BadLine /\ \A j \in 1..(i - 1) : content[j] # BadLine
    ELSE 0

InvalidUtf8(p, n) ==
    ErrorMessage(<<"file contained invalid UTF-8 on line ", n>>, "Error", InFile(p))

\* the read stage of parse is over
ParseReadOver == ppc \notin {"idle", "read"}

\* C10: when the file opens and a line does not decode, the read stage of load
\* and of parse stops at the first such line: it fails with one Error naming
\* that line's 1-indexed number, and examines no line after it.
C10_FirstBadLine ==
    /\ (LoadReturned /\ ~last.cyclic /\ last.disk.exists /\ FirstBad(last.disk.content) > 0)
       => LET n == FirstBad(last.disk.content)
          IN  /\ lines = [value |-> None, diags |-> <<InvalidUtf8(last.path, n)>>]
              /\ last.examined = n
              /\ Len(lines_vec) = n - 1
              /\ error_emitter = Append(last.emitter0, InvalidUtf8(last.path, n))
    /\ (ParseReadOver /\ files[pmodule_path].exists
            /\ FirstBad(files[pmodule_path].content) > 0)
       => LET n == FirstBad(files[pmodule_path].content)
          IN  /\ presult = [value |-> None, diags |-> <<InvalidUtf8(pmodule_path, n)>>]
              /\ pline_number = n - 1
              /\ Len(plines_vec) = n - 1

\* load and parse have both read a file whose bad line is followed by another line
C10_Witness ==
    /\ LoadReturned /\ ~last.cyclic /\ last.disk.exists
    /\ FirstBad(last.disk.content) \in 1..(Len(last.disk.content) - 1)
    /\ ParseReadOver /\ pmodule_path = last.path

-----------------------------------------------------------------------------
(* Properties of parse *)

\* a result that lets the chain go on: a value and no Error among the diagnostics
Clean(r) == IsOk(r) /\ ~HasError(r.diags)

\* the file was opened and every line of it decoded
ReadOk == returned # <<>> /\ returned[1].stage = "read" /\ IsOk(returned[1].result)

\* what pass number i returned, once it was invoked
PassReturned(i) == returned[i + 1].result

RECURSIVE AllDiags(_)
AllDiags(rs) == IF rs = <<>> THEN <<>> ELSE rs[1].result.diags \o AllDiags(Tail(rs))

\* C5: the passes run in the order lexer, indent, brackets, parser, types,
\* index, each at most once; a pass runs only after the file was read and every
\* earlier pass returned a value with no Error so far; after a pass that fails or
\* leaves an Error no pass runs, and parse returns Fail.
C5_PassOrder ==
    /\ Len(invoked) <= Len(Passes)
    /\ \A i \in 1..Len(invoked) : invoked[i] = Passes[i]
    /\ invoked # <<>> => ReadOk
    /\ \A i \in 1..Len(invoked) : \A j \in 1..(i - 1) : Clean(PassReturned(j))
    /\ \A i \in 1..Len(invoked) :
          ~Clean(PassReturned(i))
          => /\ Len(invoked) = i
             /\ ppc = "done" => ~IsOk(presult)

\* the parser pass returned a tree with an Error: types and index never ran
C5_Witness ==
    /\ ppc = "done"
    /\ invoked = <<"lexer", "indent", "brackets", "parser">>
    /\ IsOk(PassReturned(4)) /\ HasError(PassReturned(4).diags)
    /\ ~IsOk(presult)

\* C6: when the file is read and every pass returns a value with nothing but
\* warnings, all six passes run and parse returns Ok with the parser's tree and
\* every warning among its diagnostics.
C6_WarningsDoNotHalt ==
    (ppc = "done" /\ ReadOk /\ \A i \in 1..Len(invoked) : Clean(PassReturned(i)))
    => /\ invoked = Passes
       /\ IsOk(presult)
       /\ presult.value = PassReturned(4).value
       /\ \A i \in 1..Len(returned) :
             SeqRange(returned[i].result.diags) \subseteq SeqRange(presult.diags)

\* parse returned Ok after two different passes gave warnings
C6_Witness ==
    /\ ppc = "done" /\ IsOk(presult)
    /\ \E i \in 1..6 : \E j \in (i + 1)..6 :
           PassReturned(i).diags # <<>> /\ PassReturned(j).diags # <<>>

\* C7: the diagnostics parse returns are those of the read stage and of each
\* pass that ran, concatenated in the order they ran.
C7_DiagnosticsInOrder == ppc = "done" => presult.diags = AllDiags(returned)

\* parse returned Fail with diagnostics from two different passes
C7_Witness ==
    /\ ppc = "done" /\ ~IsOk(presult)
    /\ \E i \in 1..Len(invoked) : \E j \in (i + 1)..Len(invoked) :
           PassReturned(i).diags # <<>> /\ PassReturned(j).diags # <<>>

\* C8: parse returns Ok exactly when the file was read and all six passes
\* returned a value with no Error; the value is then the parser's tree.
C8_OkIffAllPasses ==
    ppc = "done"
    => /\ IsOk(presult)
          <=> /\ ReadOk
              /\ Len(invoked) = Len(Passes)
              /\ \A i \in 1..Len(invoked) : Clean(PassReturned(i))
       /\ IsOk(presult) => presult.value = PassReturned(4).value

\* parse returned the second of the trees the parser can produce
C8_Witness ==
    /\ ppc = "done" /\ IsOk(presult)
    /\ PassReturned(4).value = Some([pass |-> "parser", id |-> 2])

\* ---------------------------------------------------------------------------
\* take_error_emitter

\* the last two calls made on the loader were both take_error_emitter
TookTwiceInARow ==
    /\ Len(history) >= 2
    /\ history[Len(history)][1] = "take"
    /\ history[Len(history) - 1][1] = "take"

\* C11: take_error_emitter is a one-shot drain.  Every message ever emitted is
\* either in what the takes have returned so far or still in the loader's
\* emitter, once and in order; a take returns exactly the messages emitted since
\* the take before it (or since construction) and leaves the loader's emitter
\* empty; a take that follows a take at once returns an empty emitter.
C11_TakeDrainsOnce ==
    /\ emitted = delivered \o error_emitter
    /\ last.kind = "take" =>
        /\ taken = last.emitter0
        /\ taken = SubSeq(emitted, Len(last.delivered0) + 1, Len(emitted))
        /\ delivered = last.delivered0 \o taken
        /\ error_emitter = EmitterDefault
    /\ TookTwiceInARow => taken = <<>>

\* a second take hands over the messages of the load made after the first take,
\* which had handed over messages of its own
C11_Witness ==
    /\ last.kind = "take"
    /\ taken # <<>>
    /\ last.delivered0 # <<>>
    /\ Len(delivered) = Len(last.delivered0) + Len(taken)

\* ---------------------------------------------------------------------------
\* the cache of modules

\* C12: cache entries are permanent.  No step of any load or take removes a key
\* of modules; a load that is not rejected as cyclic inserts its path, and does
\* so once: the step on which it returns puts exactly its own path among the
\* keys, and no other step of any call writes the cache.
C12_CacheEntriesPermanent ==
    [][/\ DOMAIN modules \subseteq DOMAIN modules'
       /\ (pc # "idle" /\ pc' = "idle") =>
            DOMAIN modules' = (DOMAIN modules) \cup {module_path}
       /\ (pc = "idle" \/ pc' # "idle") => modules' = modules]_vars

\* the entry of A, made by the first call, is still there after a take and a
\* load of B that has made its own entry
C12_Witness ==
    /\ LoadReturned
    /\ history = <<<<"load", "A">>, <<"take", "A">>, <<"load", "B">>>>
    /\ DOMAIN last.modules0 = {"A"}
    /\ DOMAIN modules = {"A", "B"}

\* what a load of path p yields when the file of p is f, whatever was loaded
\* before: the entry it caches and the diagnostics it gives the emitter
OutcomeOf(p, f) ==
    IF ~f.exists
    THEN [entry |-> None,
          diags |-> <<ErrorMessage(<<"cannot open file">>, "Error", InFile(p))>>]
    ELSE IF FirstBad(f.content) > 0
    THEN [entry |-> None, diags |-> <<InvalidUtf8(p, FirstBad(f.content))>>]
    ELSE [entry |-> Some("Module"), diags |-> <<>>]

\* C13: a load writes only the cache entry of its own path, and what it caches
\* and emits depends on its path and that path's file alone.  After a load of
\* p that was not rejected as cyclic, every entry of another path is as it was
\* at the call, and the entry of p and the messages added to the emitter are
\* those a load of p yields for its file, whether the earlier loads of other
\* paths succeeded or failed.
C13_LoadsAreIndependent ==
    (LoadReturned /\ ~last.cyclic) =>
        /\ DOMAIN modules = (DOMAIN last.modules0) \cup {last.path}
        /\ \A k \in (DOMAIN last.modules0) \ {last.path} : modules[k] = last.modules0[k]
        /\ modules[last.path] = OutcomeOf(last.path, last.disk).entry
        /\ error_emitter = last.emitter0 \o OutcomeOf(last.path, last.disk).diags

\* a load of B whose file is readable has returned after a load of A failed
C13_Witness ==
    /\ LoadReturned
    /\ history = <<<<"load", "A">>, <<"load", "B">>>>
    /\ last.modules0 = MapInsert(<<>>, "A", None)
    /\ Readable(files, "B")
    /\ modules["B"] = Some("Module")
    /\ modules["A"] = None

\* ---------------------------------------------------------------------------
\* bind and deny in the chain of parse

\* C14: bind on a failed result calls nothing and keeps the diagnostics.  A
\* stage of parse that finds the chain failed invokes no pass, records no
\* result and hands on the same failure with the same diagnostics; the read
\* stage that finds the open failed reads no line.  So when the file cannot be
\* opened, the line-reading closure and the passes are never invoked and parse
\* returns Fail with the one "cannot open file" Error.
C14_BindSkipsOnFail ==
    /\ [][/\ (ppc \in PassNames /\ ~IsOk(presult)) =>
               (invoked' = invoked /\ returned' = returned /\ presult' = presult)
          /\ (ppc = "read" /\ ~IsOk(pfile)) =>
               /\ plines_vec' = plines_vec /\ pline_number' = pline_number
               /\ invoked' = invoked
               /\ presult' = [value |-> None, diags |-> pfile.diags]]_vars
    /\ []((ParseReadOver /\ ~files[pmodule_path].exists) =>
            /\ invoked = <<>>
            /\ plines_vec = <<>> /\ pline_number = 0
            /\ returned = <<[stage |-> "open",
                             result |-> DiagFail(ParseCannotOpenMessage(pmodule_path))]>>
            /\ presult = [value |-> None,
                          diags |-> <<ErrorMessage(<<"cannot open file">>, "Error",
                                                   InFile(pmodule_path))>>])

\* parse has returned for a path whose file could not be opened
C14_Witness ==
    /\ ppc = "done"
    /\ ~files[pmodule_path].exists
    /\ ~IsOk(presult)
    /\ Len(presult.diags) = 1
    /\ invoked = <<>>

\* the result the latest invocation of a pass returned, in the next state
PassOut == returned'[Len(returned')].result

\* C15: deny refuses exactly the results that carry an Error, and loses no
\* diagnostic.  At every stage of parse that runs its pass, the bind joins the
\* diagnostics so far with those of the pass, and the deny after it hands on
\* all of them in that order; when none of them is an Error the result keeps
\* the value the stage produced (or stays Fail when the pass failed), and when
\* one of them is an Error the result is Fail, even if the pass returned a value.
C15_DenyRefusesErrors ==
    [][(ppc \in PassNames /\ IsOk(presult)) =>
        LET joined == BindJoin(presult.diags,
                               StageClosure(ppc, pmodule_path, presult.value[1], PassOut))
        IN  /\ presult'.diags = presult.diags \o PassOut.diags
            /\ (\A i \in 1..Len(joined.diags) : joined.diags[i].severity # "Error")
                   => presult' = joined
            /\ (\E i \in 1..Len(joined.diags) : joined.diags[i].severity = "Error")
                   => presult'.value = None]_vars

\* a pass returned a value together with an Error, after an earlier pass had
\* left a warning: parse holds Fail with the warning and the Error, in order
C15_Witness ==
    /\ Len(returned) >= 3
    /\ LET out == returned[Len(returned)].result
       IN  /\ IsOk(out)
           /\ Len(out.diags) = 1
           /\ out.diags[1].severity = "Error"
           /\ ~IsOk(presult)
           /\ Len(presult.diags) = 2
           /\ presult.diags[1].severity = "Warning"
           /\ presult.diags[2] = out.diags[1]

\* ---------------------------------------------------------------------------
\* Range

\* the number a u32 stands for; for the numbers below 2^31 only
U32Value(x) == x.hi * (U16Max + 1) + x.lo

\* l is not after m in the lexicographic order of (line, col)
LexLeq(l, m) ==
    \/ U32Value(l.line) < U32Value(m.line)
    \/ U32Value(l.line) = U32Value(m.line) /\ U32Value(l.col) <= U32Value(m.col)

\* C16: Range::union is commutative, associative and idempotent, and it yields
\* the range from the lexicographically least start to the lexicographically
\* greatest end: for all ranges a, b and c the computed unions satisfy
\* union(a, b) = union(b, a), union(a, union(b, c)) = union(union(a, b), c) and
\* union(a, a) = a; the start of union(a, b) is one of the two starts and is
\* not after either, its end is one of the two ends and not before either.
C16_UnionLaws ==
    rpc = "done" =>
        LET a == rargs[1]
            b == rargs[2]
        IN  /\ rresult.ab = rresult.ba
            /\ rresult.a_bc = rresult.ab_c
            /\ rresult.aa = a
            /\ rresult.ab.start \in {a.start, b.start}
            /\ LexLeq(rresult.ab.start, a.start) /\ LexLeq(rresult.ab.start, b.start)
            /\ rresult.ab.end \in {a.end, b.end}
            /\ LexLeq(a.end, rresult.ab.end) /\ LexLeq(b.end, rresult.ab.end)

\* the unions were computed of ranges where the order of the lines decides
\* against the order of the columns: b starts on an earlier line at a later
\* column, a ends on a later line at an earlier column, and the union is
\* neither a nor b
C16_Witness ==
    /\ rpc = "done"
    /\ LET a == rargs[1]
           b == rargs[2]
       IN  /\ U32Less(b.start.line, a.start.line) /\ U32Less(a.start.col, b.start.col)
           /\ U32Less(b.end.line, a.end.line) /\ U32Less(a.end.col, b.end.col)
           /\ rresult.ab = Range(b.start, a.end)
           /\ rresult.ab \notin {a, b}
           /\ rargs[3] \notin {a, b}

\* C17: for every Location l, whatever 32-bit numbers its line and col are,
\* Range::from(l) returns the range that starts at l and ends on the same line
\* one column further, an end strictly after the start.
C17_FromIsUnitRange ==
    rpc = "done" =>
        /\ rresult # None
        /\ rresult[1].start = rloc
        /\ rresult[1].end.line = rloc.line
        /\ U32Less(rloc.col, rresult[1].end.col)
        /\ rresult[1].end.col = U32WrappingSucc(rloc.col)
        /\ LocationLess(rresult[1].start, rresult[1].end)

\* ---------------------------------------------------------------------------
\* the loader after a load

\* C18: after a load of p that was not rejected as cyclic, p is not in
\* currently_loading, and modules[p] holds a module exactly when the file of p
\* opened and every line of it decoded.  The entry is written whatever was
\* there: the call opens the file even when p has an entry, and the entry says
\* how this call went, so a module that was present is absent after a reload
\* that fails and one that was absent is present after a reload that succeeds.
C18_EntryReflectsLastLoad ==
    (LoadReturned /\ ~last.cyclic) =>
        /\ last.path \notin currently_loading
        /\ last.path \in DOMAIN modules
        /\ modules[last.path] # None <=>
               (last.disk.exists /\ BadLine \notin SeqRange(last.disk.content))
        /\ modules[last.path] \in {None, Some("Module")}
        /\ last.opens = 1

\* a path whose module was present is loaded again after its file was removed,
\* and its entry is now absent
C18_Witness ==
    /\ LoadReturned /\ ~last.cyclic
    /\ last.path \in DOMAIN last.modules0
    /\ last.modules0[last.path] = Some("Module")
    /\ ~last.disk.exists
    /\ modules[last.path] = None

\* ---------------------------------------------------------------------------
\* the read stage of load and of parse

\* load and parse have both finished their open and read stage for one path
BothRead ==
    /\ pc = "finish" \/ (LoadReturned /\ ~last.cyclic)
    /\ ParseReadOver
    /\ pmodule_path = module_path

\* C19: the open and read stage of load is that of parse.  For one module
\* path and one state of its file, the DiagnosticResult of lines load has
\* built before it constructs the module is the one parse has built before
\* its first pass: both Ok with the same lines, or both Fail with the same
\* single diagnostic, equal in text, severity and context.
C19_SameReadStage ==
    BothRead =>
        /\ lines = presult
        /\ IsOk(lines) <=> IsOk(presult)
        /\ lines_vec = plines_vec
        /\ ~IsOk(lines) =>
               /\ Len(lines.diags) = 1 /\ Len(presult.diags) = 1
               /\ lines.diags[1].text = presult.diags[1].text
               /\ lines.diags[1].severity = presult.diags[1].severity
               /\ lines.diags[1].context = presult.diags[1].context
        /\ invoked = <<>>

\* both have read a file of two lines that decode, and both hold them
C19_Witness ==
    /\ BothRead
    /\ LoadReturned
    /\ IsOk(presult)
    /\ Len(presult.value[1]) >= 2
    /\ lines.value = presult.value

\* ---------------------------------------------------------------------------
\* currently_loading between calls

\* C20: whenever no load is executing, currently_loading is empty.  A load
\* holds its own path there while it runs and returns with the set as it was
\* at its entry, so in every sequence of load and take calls on one loader no
\* load is rejected as cyclic and the emitter is never given a "cyclic module
\* inclusion detected" message.
C20_NeverCyclic ==
    /\ pc = "idle" => currently_loading = {}
    /\ pc # "idle" => currently_loading = {module_path}
    /\ (last.kind = "load" /\ last.returned) => currently_loading = last.loading0
    /\ ~last.cyclic
    /\ CyclicCount(emitted) = 0

\* the fourth call on a loader has returned: a load of a path that was loaded
\* before and failed again, after a take
C20_Witness ==
    /\ LoadReturned
    /\ Len(history) = 4
    /\ \E i \in 1..3 : history[i] = <<"load", last.path>>
    /\ \E i \in 1..3 : history[i][1] = "take"
    /\ modules[last.path] = None
    /\ emitted # <<>>
    /\ currently_loading = {}

====
